---- MODULE Spec2Model ----
(***************************************************************************)
(* facet-yaml: shape-directed translation of a YAML node tree into a value  *)
(* under construction (src/src/deserialize/mod.rs).                         *)
(*                                                                          *)
(* Texts (Rust &str / String) are sequences of one-character strings, so    *)
(* that parsing and lowercasing are computed character by character.        *)
(* 64-bit quantities are four 16-bit limbs, least significant first, so     *)
(* that they keep their full width.                                         *)
(***************************************************************************)
EXTENDS Integers, Sequences, FiniteSets, TLC

(* ------------------------------------------------------------------------ *)
(* Bounds of the model                                                       *)
(* ------------------------------------------------------------------------ *)
\* longest sequence node the inputs hold
MaxLen == 3
\* most (key, value) pairs a mapping node of the inputs holds
MaxPairs == 2
\* most calls of from_str in one behaviour
MaxCalls == 2

(* ------------------------------------------------------------------------ *)
(* 64-bit arithmetic on limbs                                                *)
(* ------------------------------------------------------------------------ *)
Base == 256 * 256

Limbs(a, b, c, d) == <<a, b, c, d>>

Zero64 == Limbs(0, 0, 0, 0)

\* the limbs of a small natural number k < Base * Base / 2
Small(k) == Limbs(k % Base, k \div Base, 0, 0)

\* a <= b on 64-bit unsigned values
LimbLE(a, b) ==
    \/ a[4] < b[4]
    \/ a[4] = b[4] /\ a[3] < b[3]
    \/ a[4] = b[4] /\ a[3] = b[3] /\ a[2] < b[2]
    \/ a[4] = b[4] /\ a[3] = b[3] /\ a[2] = b[2] /\ a[1] <= b[1]

\* m * k + c on 64 bits, with the carry out of the top limb
MulAdd(m, k, c) ==
    LET t1 == m[1] * k + c
        t2 == m[2] * k + (t1 \div Base)
        t3 == m[3] * k + (t2 \div Base)
        t4 == m[4] * k + (t3 \div Base)
    IN  [mag |-> Limbs(t1 % Base, t2 % Base, t3 % Base, t4 % Base),
         carry |-> t4 \div Base]

\* 2^64 - m modulo 2^64: the two's complement of m
TwosNeg(m) ==
    LET t1 == (Base - 1 - m[1]) + 1
        t2 == (Base - 1 - m[2]) + (t1 \div Base)
        t3 == (Base - 1 - m[3]) + (t2 \div Base)
        t4 == (Base - 1 - m[4]) + (t3 \div Base)
    IN  Limbs(t1 % Base, t2 % Base, t3 % Base, t4 % Base)

\* a signed 64-bit integer: sign and magnitude
Num(neg, mag) == [neg |-> neg, mag |-> mag]

ZeroNum == Num(FALSE, Zero64)

Pos(k) == Num(FALSE, Small(k))

Neg(k) == Num(TRUE, Small(k))

\* 2^63 - 1 and 2^63: the magnitudes of i64::MAX and i64::MIN
I64MaxMag == Limbs(Base - 1, Base - 1, Base - 1, (Base \div 2) - 1)

I64MinMag == Limbs(0, 0, 0, Base \div 2)

(* ------------------------------------------------------------------------ *)
(* Texts                                                                     *)
(* ------------------------------------------------------------------------ *)
Digits == <<"0", "1", "2", "3", "4", "5", "6", "7", "8", "9">>

IsDigit(c) == \E k \in 1..10 : Digits[k] = c

DigitVal(c) == (CHOOSE k \in 1..10 : Digits[k] = c) - 1

AllDigits(t) == \A k \in 1..Len(t) : IsDigit(t[k])

Upper == <<"A", "B", "C", "D", "E", "F", "G", "H", "I", "J", "K", "L", "M",
           "N", "O", "P", "Q", "R", "S", "T", "U", "V", "W", "X", "Y", "Z">>

Lower == <<"a", "b", "c", "d", "e", "f", "g", "h", "i", "j", "k", "l", "m",
           "n", "o", "p", "q", "r", "s", "t", "u", "v", "w", "x", "y", "z">>

LowerChar(c) ==
    IF \E k \in 1..26 : Upper[k] = c
    THEN Lower[CHOOSE k \in 1..26 : Upper[k] = c]
    ELSE c

\* str::to_lowercase
ToLowercase(t) == [k \in 1..Len(t) |-> LowerChar(t[k])]

\* one digit more: acc * 10 + d, with overflow noticed
Shift(acc, d) ==
    CHOOSE r \in {[ok |-> x.carry = 0, mag |-> x.mag] : x \in {MulAdd(acc.mag, 10, d)}} : TRUE

\* the digits of t accumulated most significant first, from acc0
RECURSIVE Accumulate(_, _)
Accumulate(t, acc0) ==
    CHOOSE r \in {IF t = <<>> \/ ~acc.ok THEN acc
                  ELSE Accumulate(Tail(t), Shift(acc, DigitVal(Head(t))))
                  : acc \in {acc0}} : TRUE

\* str::parse::<u64>: an optional "+", then at least one digit, below 2^64
ParseU64(t) ==
    LET body == IF t # <<>> /\ t[1] = "+" THEN Tail(t) ELSE t
        r    == Accumulate(body, [ok |-> TRUE, mag |-> Zero64])
    IN  IF body # <<>> /\ AllDigits(body) /\ r.ok
        THEN [ok |-> TRUE, mag |-> r.mag]
        ELSE [ok |-> FALSE, mag |-> Zero64]

\* str::parse::<i64>: an optional sign, then at least one digit, within i64
ParseI64(t) ==
    LET signed == t # <<>> /\ t[1] \in {"+", "-"}
        neg    == t # <<>> /\ t[1] = "-"
        body   == IF signed THEN Tail(t) ELSE t
        r      == Accumulate(body, [ok |-> TRUE, mag |-> Zero64])
        fits   == IF neg THEN LimbLE(r.mag, I64MinMag) ELSE LimbLE(r.mag, I64MaxMag)
    IN  IF body # <<>> /\ AllDigits(body) /\ r.ok /\ fits
        THEN [ok |-> TRUE, num |-> Num(neg /\ r.mag # Zero64, r.mag)]
        ELSE [ok |-> FALSE, num |-> ZeroNum]

\* the position of the first exponent mark of t, 0 when there is none
ExpAt(t) ==
    IF \E k \in 1..Len(t) : t[k] \in {"e", "E"}
    THEN CHOOSE k \in 1..Len(t) :
            /\ t[k] \in {"e", "E"}
            /\ \A j \in 1..(k - 1) : t[j] \notin {"e", "E"}
    ELSE 0

\* digits with at most one point and at least one digit
IsMantissa(t) ==
    /\ \A k \in 1..Len(t) : IsDigit(t[k]) \/ t[k] = "."
    /\ Cardinality({k \in 1..Len(t) : t[k] = "."}) <= 1
    /\ \E k \in 1..Len(t) : IsDigit(t[k])

IsExponent(t) ==
    LET body == IF t # <<>> /\ t[1] \in {"+", "-"} THEN Tail(t) ELSE t
    IN  body # <<>> /\ AllDigits(body)

\* str::parse::<f64> succeeds: the decimal float grammar of the standard library
ParsesF64(t) ==
    LET body == IF t # <<>> /\ t[1] \in {"+", "-"} THEN Tail(t) ELSE t
        low  == ToLowercase(body)
        e    == ExpAt(body)
    IN  \/ low \in {<<"i", "n", "f">>, <<"n", "a", "n">>,
                    <<"i", "n", "f", "i", "n", "i", "t", "y">>}
        \/ e = 0 /\ IsMantissa(body)
        \/ e > 0 /\ IsMantissa(SubSeq(body, 1, e - 1))
                 /\ IsExponent(SubSeq(body, e + 1, Len(body)))

(* ------------------------------------------------------------------------ *)
(* Source nodes (yaml_rust2::Yaml)                                           *)
(* ------------------------------------------------------------------------ *)
Node(tag, b, i, s, items, keys, vals) ==
    [tag |-> tag, b |-> b, i |-> i, s |-> s, items |-> items, keys |-> keys, vals |-> vals]

YNull == Node("Null", FALSE, ZeroNum, <<>>, <<>>, <<>>, <<>>)

YBad == Node("BadValue", FALSE, ZeroNum, <<>>, <<>>, <<>>, <<>>)

YAlias == Node("Alias", FALSE, ZeroNum, <<>>, <<>>, <<>>, <<>>)

YBool(b) == Node("Boolean", b, ZeroNum, <<>>, <<>>, <<>>, <<>>)

YInt(i) == Node("Integer", FALSE, i, <<>>, <<>>, <<>>, <<>>)

YReal(t) == Node("Real", FALSE, ZeroNum, t, <<>>, <<>>, <<>>)

YStr(t) == Node("String", FALSE, ZeroNum, t, <<>>, <<>>, <<>>)

YArr(items) == Node("Array", FALSE, ZeroNum, <<>>, items, <<>>, <<>>)

\* an ordered mapping: the i-th pair is (keys[i], vals[i])
YHash(keys, vals) == Node("Hash", FALSE, ZeroNum, <<>>, <<>>, keys, vals)

\* yaml_type: the name of a node's kind in messages
yaml_type(ty) ==
    CASE ty.tag = "Real" -> "real number"
      [] ty.tag = "Integer" -> "integer"
      [] ty.tag = "String" -> "string"
      [] ty.tag = "Boolean" -> "boolean"
      [] ty.tag = "Array" -> "array"
      [] ty.tag = "Hash" -> "hash/map"
      [] ty.tag = "Alias" -> "alias"
      [] ty.tag = "Null" -> "null"
      [] OTHER -> "bad value"

\* Yaml::as_str: the text of a String node, nothing for any other node
IsStr(n) == n.tag = "String"

(* ------------------------------------------------------------------------ *)
(* Errors (AnyErr) and outcomes                                              *)
(* ------------------------------------------------------------------------ *)
\* a message: its fixed wording, and the kind name, the text and the number
\* it quotes
Err(msg, kind, arg, num) == [msg |-> msg, kind |-> kind, arg |-> arg, num |-> num]

NoErr == Err("", "", <<>>, ZeroNum)

Msg(msg) == Err(msg, "", <<>>, ZeroNum)

\* format!("... {}", yaml_type(value))
KindErr(msg, kind) == Err(msg, kind, <<>>, ZeroNum)

\* format!("Value {u} out of range for u8")
RangeErr(num, ty) == Err("Value {} out of range for {}", ty, <<>>, num)

\* ReflectError::to_string: Partial::set was given a value of another shape
ReflectErr == Msg("reflect: wrong shape")

\* ReflectError::to_string: Partial::parse_from_str could not parse the text
ParseHookErr == Msg("reflect: parse failed")

(* ------------------------------------------------------------------------ *)
(* Values                                                                    *)
(* ------------------------------------------------------------------------ *)
Val(vt, num, b, s, elems) == [vt |-> vt, num |-> num, b |-> b, s |-> s, elems |-> elems]

VUninit == Val("uninit", ZeroNum, FALSE, <<>>, <<>>)

VDefault == Val("default", ZeroNum, FALSE, <<>>, <<>>)

VNone == Val("none", ZeroNum, FALSE, <<>>, <<>>)

\* an integer of Rust type ty ("u8", "i32", ...)
VInt(ty, num) == Val(ty, num, FALSE, <<>>, <<>>)

\* a float of Rust type ty, converted from the integer num or parsed from text s
VFloat(ty, num, s) == Val(ty, num, FALSE, s, <<>>)

VBool(b) == Val("bool", ZeroNum, b, <<>>, <<>>)

VString(s) == Val("String", ZeroNum, FALSE, s, <<>>)

\* a value the type's own string parser made of s
VParsed(ty, s) == Val(ty, ZeroNum, FALSE, s, <<>>)

VAgg(vt, elems) == Val(vt, ZeroNum, FALSE, <<>>, elems)

(* ------------------------------------------------------------------------ *)
(* Shapes (facet_core::Shape)                                                *)
(* ------------------------------------------------------------------------ *)
\* id: the Rust type; ty: shape.ty; def: shape.def; size: layout size in bytes;
\* transparent: the Transparent attribute; hook: the string parser of the type;
\* fnames/fdefault: the struct fields' names and DEFAULT flags; kids: the field
\* shapes of a struct, the inner shape of a wrapper, the item shape of a list or
\* slice, the key and value shapes of a map, the payload shape of an option,
\* the pointee shape of a pointer (none when pointee() is None).
Shape(id, ty, def, size, transparent, hook, fnames, fdefault, kids) ==
    [id |-> id, ty |-> ty, def |-> def, size |-> size, transparent |-> transparent,
     hook |-> hook, fnames |-> fnames, fdefault |-> fdefault, kids |-> kids]

Scalar(id, ty, size) == Shape(id, ty, "Scalar", size, FALSE, "none", <<>>, <<>>, <<>>)

Struct(id, fnames, fdefault, kids) ==
    Shape(id, "Struct", "Undefined", 0, FALSE, "none", fnames, fdefault, kids)

Wrapper(id, inner) ==
    Shape(id, "Struct", "Undefined", 0, TRUE, "none", <<<<"0">>>>, <<FALSE>>, <<inner>>)

Container(id, ty, def, kids) == Shape(id, ty, def, 0, FALSE, "none", <<>>, <<>>, kids)

(* ------------------------------------------------------------------------ *)
(* The value under construction (facet_reflect::Partial)                     *)
(* ------------------------------------------------------------------------ *)
\* one open hole: its shape, how it was opened, the field index it fills, the
\* value built in it so far, and which of its fields are set
Hole(shape, kind, idx, val, isset) ==
    [shape |-> shape, kind |-> kind, idx |-> idx, val |-> val, isset |-> isset]

\* a fresh hole: an option is absent until a payload is begun, a struct has
\* every field unset
FreshHole(shape, kind, idx) ==
    Hole(shape, kind, idx,
         IF shape.def = "Option" THEN VNone
         ELSE IF shape.ty = "Struct" /\ ~shape.transparent
              THEN VAgg("struct", [k \in 1..Len(shape.kids) |-> VUninit])
              ELSE VUninit,
         IF shape.ty = "Struct" /\ ~shape.transparent
         THEN [k \in 1..Len(shape.kids) |-> FALSE] ELSE <<>>)

Top(h) == h[Len(h)]

SetTop(h, f) == [h EXCEPT ![Len(h)] = f]

\* Partial::shape
CurShape(h) == Top(h).shape

\* begin_inner, begin_nth_field, begin_list_item, begin_key, begin_value,
\* begin_some, begin_smart_ptr: open a child hole of the current hole
BeginChild(h, kind, k) == Append(h, FreshHole(CurShape(h).kids[k], kind, k))

\* begin_list, begin_map: the current hole becomes an empty collection
BeginCollection(h, vt) ==
    IF Top(h).val.vt = vt THEN h ELSE SetTop(h, [Top(h) EXCEPT !.val = VAgg(vt, <<>>)])

\* Partial::set: the value must be of the hole's type
SetOk(h, v) == CurShape(h).id = v.vt

SetValue(h, v) == SetTop(h, [Top(h) EXCEPT !.val = v])

\* Partial::field_index: the index of the field of that name, 0 for none
FieldIndex(h, name) ==
    LET names == CurShape(h).fnames
    IN  IF \E k \in 1..Len(names) : names[k] = name
        THEN CHOOSE k \in 1..Len(names) : names[k] = name
        ELSE 0

\* Partial::is_field_set
IsFieldSet(h, k) == Top(h).isset[k]

\* Partial::set_nth_field_to_default
SetNthFieldToDefault(h, k) ==
    SetTop(h, [Top(h) EXCEPT !.val.elems[k] = VDefault, !.isset[k] = TRUE])

\* Partial::end: close the current hole and store its value in its parent
End(h) ==
    LET c == Top(h)
        p == h[Len(h) - 1]
        q == CASE c.kind = "field" ->
                    [p EXCEPT !.val.elems[c.idx] = c.val, !.isset[c.idx] = TRUE]
               [] c.kind \in {"item", "key", "value"} ->
                    [p EXCEPT !.val.elems = Append(@, c.val)]
               [] OTHER -> [p EXCEPT !.val = VAgg(c.kind, <<c.val>>)]
    IN  Append(SubSeq(h, 1, Len(h) - 2), q)

(* ------------------------------------------------------------------------ *)
(* Scalar coercion                                                           *)
(* ------------------------------------------------------------------------ *)
\* a coercion's result: the value to set, or the error
Got(val) == [ok |-> TRUE, val |-> val, err |-> NoErr]

Failed(err) == [ok |-> FALSE, val |-> VUninit, err |-> err]

\* faulty variant of AsU64: the magnitude is taken, as unsigned_abs would
AsU64Magnitude(i) == i.mag

\* `*i as u64`: the same 64 bits read as unsigned
AsU64(i) == IF i.neg THEN TwosNeg(i.mag) ELSE i.mag

yaml_to_u64(ty) ==
    CASE ty.tag = "Real" ->
            IF ParseU64(ty.s).ok THEN Got(VInt("u64", Num(FALSE, ParseU64(ty.s).mag)))
            ELSE Failed(Msg("Failed to parse real as u64"))
      [] ty.tag = "Integer" -> Got(VInt("u64", Num(FALSE, AsU64(ty.i))))
      [] ty.tag = "String" ->
            IF ParseU64(ty.s).ok THEN Got(VInt("u64", Num(FALSE, ParseU64(ty.s).mag)))
            ELSE Failed(Msg("Failed to parse string as u64"))
      [] ty.tag = "Boolean" -> Got(VInt("u64", IF ty.b THEN Pos(1) ELSE Pos(0)))
      [] OTHER -> Failed(KindErr("Cannot convert {} to u64", yaml_type(ty)))

\* u8::MAX, u16::MAX, u32::MAX
UMax(size) ==
    CASE size = 1 -> Limbs(255, 0, 0, 0)
      [] size = 2 -> Limbs(Base - 1, 0, 0, 0)
      [] size = 4 -> Limbs(Base - 1, Base - 1, 0, 0)

\* u8::try_from(u), u16::try_from(u), u32::try_from(u)
FitsUnsigned(u, size) == LimbLE(u, UMax(size))

\* the unsigned integer arm: stage as u64, then narrow to the target's size
UnsignedValue(shape, value) ==
    LET r == yaml_to_u64(value)
        u == r.val.num
    IN  IF ~r.ok THEN r
        ELSE CASE shape.size = 1 ->
                    IF FitsUnsigned(u.mag, 1) THEN Got(VInt("u8", u))
                    ELSE Failed(RangeErr(u, "u8"))
               [] shape.size = 2 ->
                    IF FitsUnsigned(u.mag, 2) THEN Got(VInt("u16", u))
                    ELSE Failed(RangeErr(u, "u16"))
               [] shape.size = 4 ->
                    IF FitsUnsigned(u.mag, 4) THEN Got(VInt("u32", u))
                    ELSE Failed(RangeErr(u, "u32"))
               [] shape.size = 8 ->
                    IF shape.id = "usize" THEN Got(VInt("usize", u))
                    ELSE Got(VInt("u64", u))
               [] shape.size = 16 -> Got(VInt("u128", u))
               [] OTHER -> Got(VInt("usize", u))

\* the staging value of the signed integer arm
yaml_to_i64(value) ==
    CASE value.tag = "Integer" -> Got(VInt("i64", value.i))
      [] value.tag = "Real" ->
            IF ParseI64(value.s).ok THEN Got(VInt("i64", ParseI64(value.s).num))
            ELSE Failed(Msg("Failed to parse real as i64"))
      [] value.tag = "String" ->
            IF ParseI64(value.s).ok THEN Got(VInt("i64", ParseI64(value.s).num))
            ELSE Failed(Msg("Failed to parse string as i64"))
      [] value.tag = "Boolean" -> Got(VInt("i64", IF value.b THEN Pos(1) ELSE Pos(0)))
      [] OTHER -> Failed(KindErr("Cannot convert {} to i64", yaml_type(value)))

\* the magnitude of i8::MIN, i16::MIN, i32::MIN
IMinMag(size) ==
    CASE size = 1 -> Limbs(128, 0, 0, 0)
      [] size = 2 -> Limbs(Base \div 2, 0, 0, 0)
      [] size = 4 -> Limbs(0, Base \div 2, 0, 0)

\* i8::MAX, i16::MAX, i32::MAX
IMaxMag(size) ==
    CASE size = 1 -> Limbs(127, 0, 0, 0)
      [] size = 2 -> Limbs((Base \div 2) - 1, 0, 0, 0)
      [] size = 4 -> Limbs(Base - 1, (Base \div 2) - 1, 0, 0)

\* i8::try_from(i), i16::try_from(i), i32::try_from(i)
FitsSigned(i, size) ==
    IF i.neg THEN LimbLE(i.mag, IMinMag(size)) ELSE LimbLE(i.mag, IMaxMag(size))

\* the signed integer arm
SignedValue(shape, value) ==
    LET r == yaml_to_i64(value)
        i == r.val.num
    IN  IF ~r.ok THEN r
        ELSE CASE shape.size = 1 ->
                    IF FitsSigned(i, 1) THEN Got(VInt("i8", i))
                    ELSE Failed(RangeErr(i, "i8"))
               [] shape.size = 2 ->
                    IF FitsSigned(i, 2) THEN Got(VInt("i16", i))
                    ELSE Failed(RangeErr(i, "i16"))
               [] shape.size = 4 ->
                    IF FitsSigned(i, 4) THEN Got(VInt("i32", i))
                    ELSE Failed(RangeErr(i, "i32"))
               [] shape.size = 8 ->
                    IF shape.id = "isize" THEN Got(VInt("isize", i))
                    ELSE Got(VInt("i64", i))
               [] shape.size = 16 -> Got(VInt("i128", i))
               [] OTHER -> Got(VInt("isize", i))

\* the float arm: the float is kept as what it was converted from
FloatValue(shape, value) ==
    LET ty == IF shape.size = 4 THEN "f32" ELSE "f64"
    IN  CASE value.tag = "Real" ->
                IF ParsesF64(value.s) THEN Got(VFloat(ty, ZeroNum, value.s))
                ELSE Failed(Msg("Failed to parse real as f64"))
          [] value.tag = "Integer" -> Got(VFloat(ty, value.i, <<>>))
          [] value.tag = "String" ->
                IF ParsesF64(value.s) THEN Got(VFloat(ty, ZeroNum, value.s))
                ELSE Failed(Msg("Failed to parse string as f64"))
          [] OTHER -> Failed(KindErr("Cannot convert {} to f64", yaml_type(value)))

\* faulty variant of BoolValue: the text is compared as it is written
BoolValueExact(value) ==
    CASE value.tag = "Boolean" -> Got(VBool(value.b))
      [] value.tag = "Integer" -> Got(VBool(value.i # ZeroNum))
      [] value.tag = "String" ->
            Got(VBool(value.s \in {<<"t", "r", "u", "e">>, <<"y", "e", "s">>, <<"1">>}))
      [] OTHER -> Failed(KindErr("Cannot convert {} to bool", yaml_type(value)))

\* the texts that read as true
TrueTexts == {<<"t", "r", "u", "e">>, <<"y", "e", "s">>, <<"1">>}

\* the bool arm
BoolValue(value) ==
    CASE value.tag = "Boolean" -> Got(VBool(value.b))
      [] value.tag = "Integer" -> Got(VBool(value.i # ZeroNum))
      [] value.tag = "String" -> Got(VBool(ToLowercase(value.s) \in TrueTexts))
      [] OTHER -> Failed(KindErr("Cannot convert {} to bool", yaml_type(value)))

\* the String arm
StringValue(value) ==
    IF IsStr(value) THEN Got(VString(value.s))
    ELSE Failed(KindErr("Expected string, got: {}", yaml_type(value)))

\* Partial::parse_from_str: the type's own parser accepts s
HookParses(shape, s) ==
    CASE shape.hook = "char" -> Len(s) = 1
      [] OTHER -> FALSE

\* the arm of every other scalar: the node must be a string
OtherText(value) ==
    IF IsStr(value) THEN Got(VString(value.s))
    ELSE Failed(KindErr("Expected string, got: {}", yaml_type(value)))

\* the scalar arm tries the type's own string parser: the shape is neither
\* numeric nor bool nor String
IsHooked(shape) == shape.ty \notin {"UInt", "SInt", "Float"} /\ shape.id \notin {"bool", "String"}

\* Def::Scalar: the value the scalar arm hands to Partial::set (to
\* Partial::parse_from_str first, for a shape with a parser), or its error
ScalarValue(shape, value) ==
    CASE shape.ty = "UInt" -> UnsignedValue(shape, value)
      [] shape.ty = "SInt" -> SignedValue(shape, value)
      [] shape.ty = "Float" -> FloatValue(shape, value)
      [] shape.id = "bool" -> BoolValue(value)
      [] shape.id = "String" -> StringValue(value)
      [] OTHER -> OtherText(value)

(* ------------------------------------------------------------------------ *)
(* The inputs: target shapes and documents                                   *)
(* ------------------------------------------------------------------------ *)
U8 == Scalar("u8", "UInt", 1)

U16 == Scalar("u16", "UInt", 2)

U32 == Scalar("u32", "UInt", 4)

U64 == Scalar("u64", "UInt", 8)

USize == Scalar("usize", "UInt", 8)

U128 == Scalar("u128", "UInt", 16)

I8 == Scalar("i8", "SInt", 1)

I16 == Scalar("i16", "SInt", 2)

I32 == Scalar("i32", "SInt", 4)

I64 == Scalar("i64", "SInt", 8)

ISize == Scalar("isize", "SInt", 8)

I128 == Scalar("i128", "SInt", 16)

F32 == Scalar("f32", "Float", 4)

F64 == Scalar("f64", "Float", 8)

Bool == Scalar("bool", "Other", 1)

Str == Scalar("String", "Other", 24)

\* a scalar with a string parser of its own, and one without
Char == [Scalar("char", "Other", 4) EXCEPT !.hook = "char"]

Opaque == Scalar("Opaque", "Other", 8)

VecOf(item) == Container("Vec", "Other", "List", <<item>>)

SliceOf(item) == Container("[]", "Slice", "Slice", <<item>>)

PtrTo(pointee) == Container("Arc", "Other", "Pointer", <<pointee>>)

\* a pointer whose definition names no pointee
PtrToNothing == Container("Ptr", "Other", "Pointer", <<>>)

MapOf(key, val) == Container("HashMap", "Other", "Map", <<key, val>>)

OptionOf(some) == Container("Option", "Other", "Option", <<some>>)

\* a shape whose definition has no translation
ArrayOf(item) == Container("[;2]", "Other", "Array", <<item>>)

\* struct AB { a: u8, b: bool }
AB == Struct("AB", << <<"a">>, <<"b">> >>, <<FALSE, FALSE>>, <<U8, Bool>>)

\* struct AD { a: u8, #[facet(default)] d: u8 }
AD == Struct("AD", << <<"a">>, <<"d">> >>, <<FALSE, TRUE>>, <<U8, U8>>)

\* struct DD { #[facet(default)] a: u8, #[facet(default)] b: u8 }
DD == Struct("DD", << <<"a">>, <<"b">> >>, <<TRUE, TRUE>>, <<U8, U8>>)

\* struct BA { b: u16, a: u16 }
BA == Struct("BA", << <<"b">>, <<"a">> >>, <<FALSE, FALSE>>, <<U16, U16>>)

Shapes ==
    {U8, U16, U32, U64, USize, U128, I8, I16, I32, I64, ISize, I128, F32, F64,
     Bool, Str, Char, Opaque,
     VecOf(U8), VecOf(U64), VecOf(VecOf(U16)), VecOf(AB), SliceOf(U8),
     PtrTo(SliceOf(I32)), PtrTo(SliceOf(VecOf(U16))), PtrTo(U8), PtrToNothing,
     MapOf(Str, U8), MapOf(U8, U8), MapOf(Str, VecOf(U8)),
     OptionOf(U8), ArrayOf(U8),
     AB, AD, BA, DD, Wrapper("W", U8), Wrapper("WV", VecOf(U8))}

\* i64::MIN, u32::MAX and u32::MAX + 1 among the integers
IntSamples ==
    {Pos(0), Pos(1), Pos(2), Pos(255), Pos(256), Pos(300), Pos(Base - 1), Pos(Base),
     Neg(1), Neg(128), Neg(129), Num(TRUE, I64MinMag),
     Num(FALSE, Limbs(Base - 1, Base - 1, 0, 0)), Num(FALSE, Limbs(0, 0, 1, 0))}

\* the reals the parser yields: texts that read as a float and not as an i64
RealSamples ==
    {<<"1", ".", "5">>, <<"1", "e", "3">>,
     <<"9", "2", "2", "3", "3", "7", "2", "0", "3", "6", "8", "5", "4", "7", "7", "5",
       "8", "0", "8">>,
     <<"1", "8", "4", "4", "6", "7", "4", "4", "0", "7", "3", "7", "0", "9", "5", "5",
       "1", "6", "1", "5">>,
     <<"1", "8", "4", "4", "6", "7", "4", "4", "0", "7", "3", "7", "0", "9", "5", "5",
       "1", "6", "1", "6">>}

StrSamples ==
    {<<>>, <<"x">>, <<"1">>, <<"0">>, <<"n", "o">>, <<"Y", "e", "s">>,
     <<"t", "r", "u", "e">>, <<"T", "R", "U", "E">>, <<"f", "a", "l", "s", "e">>,
     <<"2", "5", "5">>, <<"3", "0", "0">>, <<"-", "1">>, <<"+", "7">>,
     <<"a", "b">>, <<"1", ".", "5">>}

ScalarNodes ==
    {YNull, YBad, YAlias, YBool(TRUE), YBool(FALSE)}
    \cup {YInt(i) : i \in IntSamples}
    \cup {YReal(t) : t \in RealSamples}
    \cup {YStr(t) : t \in StrSamples}

\* the sequences over S of length at most n
SeqsUpTo(S, n) == UNION {[1..k -> S] : k \in 0..n}

ItemSamples == {YInt(Pos(1)), YInt(Pos(2)), YInt(Pos(300))}

FlatArrays == {YArr(q) : q \in SeqsUpTo(ItemSamples, MaxLen)}

InnerArrays ==
    {YArr(<<>>), YArr(<<YInt(Pos(1))>>), YArr(<<YInt(Pos(1)), YInt(Pos(2))>>),
     YArr(<<YInt(Pos(2)), YInt(Pos(1))>>)}

KeySamples == {YStr(<<"a">>), YStr(<<"b">>), YStr(<<"z", "z">>), YInt(Pos(1))}

ValSamples == {YInt(Pos(1)), YInt(Pos(300))}

\* a mapping holds each key once
Distinct(q) == \A j, k \in 1..Len(q) : j # k => q[j] # q[k]

Hashes ==
    {YHash(ks, vs) : <<ks, vs>> \in
        UNION {{ks \in [1..n -> KeySamples] : Distinct(ks)} \X [1..n -> ValSamples]
               : n \in 0..MaxPairs}}

RowSamples ==
    {YHash(<<YStr(<<"a">>), YStr(<<"b">>)>>, <<YInt(Pos(1)), YBool(TRUE)>>),
     YHash(<<YStr(<<"b">>), YStr(<<"a">>)>>, <<YStr(<<"n", "o">>), YInt(Pos(2))>>)}

NestedArrays == {YArr(q) : q \in SeqsUpTo(InnerArrays \cup RowSamples, 2)}

Nodes ==
    ScalarNodes \cup FlatArrays \cup NestedArrays \cup Hashes
    \cup {YHash(<<YStr(<<"a">>)>>, <<a>>) : a \in InnerArrays}

\* what YamlLoader::load_from_str returns: a scan error, or the documents
Loaded(ok, docs) == [ok |-> ok, docs |-> docs]

Inputs ==
    {Loaded(FALSE, <<>>), Loaded(TRUE, <<>>)}
    \cup {Loaded(TRUE, <<n>>) : n \in Nodes}
    \cup {Loaded(TRUE, <<n, m>>) : n, m \in {YInt(Pos(1)), YArr(<<>>)}}

(* ------------------------------------------------------------------------ *)
(* State                                                                     *)
(* ------------------------------------------------------------------------ *)
VARIABLES
    phase,    \* "idle", "walk", "unwind", "build", "done"
    calls,    \* the calls of from_str so far
    target,   \* the shape of T of the call
    docs,     \* what the loader returned to the call
    stack,    \* the activations of deserialize_value and the walkers
    holes,    \* the open holes of the value under construction, outermost first
    ops,      \* the builder operations issued by the call, in order
    visited,  \* the nodes deserialize_value was called on, in order
    err,      \* the error being returned
    first,    \* the error of the first operation of the call that failed
    outcome,  \* what the call returned
    prev      \* the previous call: its target, its documents and its outcome

vars == <<phase, calls, target, docs, stack, holes, ops, visited, err, first, outcome, prev>>

\* one activation: the function, its node, where it stands, its loop index
\* and the number of open holes when it was entered
Frame(fn, node, pc, i, d0) == [fn |-> fn, node |-> node, pc |-> pc, i |-> i, d0 |-> d0]

Outcome(kind, val, e) == [kind |-> kind, val |-> val, err |-> e]

NoOutcome == Outcome("none", VUninit, NoErr)

NoShape == Scalar("", "", 0)

Call(t, in, o) == [target |-> t, in |-> in, outcome |-> o]

Init ==
    /\ phase = "idle"
    /\ calls = 0
    /\ target = NoShape
    /\ docs = Loaded(TRUE, <<>>)
    /\ stack = <<>>
    /\ holes = <<>>
    /\ ops = <<>>
    /\ visited = <<>>
    /\ err = NoErr
    /\ first = NoErr
    /\ outcome = NoOutcome
    /\ prev = Call(NoShape, Loaded(TRUE, <<>>), NoOutcome)

(* ------------------------------------------------------------------------ *)
(* Steps shared by the actions                                               *)
(* ------------------------------------------------------------------------ *)
TopFrame == stack[Len(stack)]

At(fn, pc) == phase = "walk" /\ stack # <<>> /\ TopFrame.fn = fn /\ TopFrame.pc = pc

\* the shape deserialize_value reads from wip.shape() on entry
AtShape == CurShape(holes)

\* `return Err(e)` or `...?` on an error: the function returns the error
Fail(e, h, o) ==
    /\ err' = e
    /\ first' = IF first = NoErr THEN e ELSE first
    /\ phase' = "unwind"
    /\ holes' = h
    /\ ops' = o
    /\ UNCHANGED <<calls, target, docs, stack, visited, outcome, prev>>

\* the activation moves on to pc with loop index i
Goto(pc, i, h, o) ==
    /\ stack' = [stack EXCEPT ![Len(stack)].pc = pc, ![Len(stack)].i = i]
    /\ holes' = h
    /\ ops' = o
    /\ UNCHANGED <<phase, calls, target, docs, visited, err, first, outcome, prev>>

\* deserialize_value(wip, node) is called; the caller resumes at pc
CallValue(pc, i, node, h, o) ==
    /\ stack' = Append([stack EXCEPT ![Len(stack)].pc = pc, ![Len(stack)].i = i],
                       Frame("value", node, "enter", 0, Len(h)))
    /\ visited' = Append(visited, node)
    /\ holes' = h
    /\ ops' = o
    /\ UNCHANGED <<phase, calls, target, docs, err, first, outcome, prev>>

\* deserialize_as_list or deserialize_as_map is called; the caller resumes at pc
CallWalker(fn, pc, node, h, o) ==
    /\ stack' = Append([stack EXCEPT ![Len(stack)].pc = pc],
                       Frame(fn, node, "enter", 0, Len(h)))
    /\ holes' = h
    /\ ops' = o
    /\ UNCHANGED <<phase, calls, target, docs, visited, err, first, outcome, prev>>

(* ------------------------------------------------------------------------ *)
(* from_str and from_str_value                                               *)
(* ------------------------------------------------------------------------ *)
\* faulty variant of DocCountOk: only an empty load is refused
DocCountLax(d) == Len(d) >= 1

\* docs.len() != 1 is refused
DocCountOk(d) == Len(d) = 1

\* from_str up to the call of deserialize_value: Partial::alloc, the load of
\* the documents and the check of their number
Start(t, in) ==
    /\ calls' = calls + 1
    /\ target' = t
    /\ docs' = in
    /\ holes' = <<FreshHole(t, "root", 0)>>
    /\ ops' = <<>>
    /\ outcome' = NoOutcome
    /\ prev' = Call(target, docs, outcome)
    /\ IF ~in.ok
       THEN /\ err' = Msg("scan error")
            /\ first' = Msg("scan error")
            /\ phase' = "unwind"
            /\ stack' = <<>>
            /\ visited' = <<>>
       ELSE IF ~DocCountOk(in.docs)
       THEN /\ err' = Msg("Expected exactly one YAML document")
            /\ first' = Msg("Expected exactly one YAML document")
            /\ phase' = "unwind"
            /\ stack' = <<>>
            /\ visited' = <<>>
       ELSE /\ err' = NoErr
            /\ first' = NoErr
            /\ phase' = "walk"
            /\ stack' = <<Frame("value", in.docs[1], "enter", 0, 1)>>
            /\ visited' = <<in.docs[1]>>

FromStr ==
    /\ phase = "idle"
    /\ \E t \in Shapes, in \in Inputs : Start(t, in)

\* the pairs of a mapping, as a set
PairSet(n) == {<<n.keys[k], n.vals[k]>> : k \in 1..Len(n.keys)}

\* from_str called again for the same struct type on the same pairs in
\* another order
FromStrReordered ==
    /\ phase = "done"
    /\ calls < MaxCalls
    /\ target.ty = "Struct"
    /\ docs.ok /\ Len(docs.docs) = 1 /\ docs.docs[1].tag = "Hash"
    /\ \E n \in Hashes :
        /\ n # docs.docs[1]
        /\ PairSet(n) = PairSet(docs.docs[1])
        /\ Start(target, Loaded(TRUE, <<n>>))

(* ------------------------------------------------------------------------ *)
(* deserialize_value                                                         *)
(* ------------------------------------------------------------------------ *)
\* a transparent shape: the inner hole is opened and the same node translated
TransparentBegin ==
    /\ At("value", "enter")
    /\ AtShape.transparent
    /\ CallValue("inner_end", 0, TopFrame.node,
                 BeginChild(holes, "inner", 1), Append(ops, "begin_inner"))

TransparentEnd ==
    /\ At("value", "inner_end")
    /\ Goto("ret", 0, End(holes), Append(ops, "end"))

IsStructShape(shape) == ~shape.transparent /\ shape.ty = "Struct"

\* a struct wants a mapping
StructEnter ==
    /\ At("value", "enter")
    /\ IsStructShape(AtShape)
    /\ IF TopFrame.node.tag = "Hash"
       THEN Goto("pairs", 1, holes, ops)
       ELSE Fail(KindErr("Expected a YAML hash, got: {:?}", TopFrame.node.tag), holes, ops)

\* faulty variant of ResolveField: a key that names no field falls to the first field
ResolveFieldOrFirst(h, k) ==
    [found |-> TRUE, index |-> IF FieldIndex(h, k) = 0 THEN 1 ELSE FieldIndex(h, k)]

\* faulty variant of ResolveField: the key is ignored and the first unset field taken
ResolveNextUnset(h, k) ==
    [found |-> \E j \in 1..Len(Top(h).isset) : ~Top(h).isset[j],
     index |-> IF \E j \in 1..Len(Top(h).isset) : ~Top(h).isset[j]
               THEN CHOOSE j \in 1..Len(Top(h).isset) :
                        ~Top(h).isset[j] /\ \A m \in 1..(j - 1) : Top(h).isset[m]
               ELSE 0]

\* the field a key names: its index, or that there is none
ResolveField(h, k) == [found |-> FieldIndex(h, k) # 0, index |-> FieldIndex(h, k)]

\* one pair of the mapping: the key is resolved, the field's hole opened and
\* the value translated into it
StructPair ==
    /\ At("value", "pairs")
    /\ TopFrame.i <= Len(TopFrame.node.keys)
    /\ LET k == TopFrame.node.keys[TopFrame.i]
           v == TopFrame.node.vals[TopFrame.i]
           f == ResolveField(holes, k.s)
       IN  IF ~IsStr(k)
           THEN Fail(KindErr("Expected string key, got: {}", yaml_type(k)), holes, ops)
           ELSE IF ~f.found
           THEN Fail(Err("Field '{}' not found", "", k.s, ZeroNum), holes, ops)
           ELSE CallValue("pair_end", TopFrame.i, v,
                          BeginChild(holes, "field", f.index),
                          Append(ops, "begin_nth_field"))

StructPairEnd ==
    /\ At("value", "pair_end")
    /\ Goto("pairs", TopFrame.i + 1, End(holes), Append(ops, "end"))

\* faulty variant of ToDefault: every field with the DEFAULT flag, set or not
ToDefaultFlagged(h) ==
    {k \in 1..Len(CurShape(h).kids) : CurShape(h).fdefault[k]}

\* the fields the default-filling loop defaults: unset, with the DEFAULT flag
ToDefault(h) ==
    {k \in 1..Len(CurShape(h).kids) : ~IsFieldSet(h, k) /\ CurShape(h).fdefault[k]}

\* set_nth_field_to_default on the fields of S, by rising index
RECURSIVE ApplyDefaults(_, _, _)
ApplyDefaults(h, S, k) ==
    IF k > Len(CurShape(h).kids) THEN h
    ELSE ApplyDefaults(IF k \in S THEN SetNthFieldToDefault(h, k) ELSE h, S, k + 1)

\* after the last pair: every unset field with a default is defaulted
StructDefaults ==
    /\ At("value", "pairs")
    /\ TopFrame.i > Len(TopFrame.node.keys)
    /\ Goto("check", 0, ApplyDefaults(holes, ToDefault(holes), 1),
            ops \o [k \in 1..Cardinality(ToDefault(holes)) |-> "set_nth_field_to_default"])

\* some field is still unset
SomeFieldUnset(h) == \E k \in 1..Len(CurShape(h).kids) : ~IsFieldSet(h, k)

\* todo!(): the thread panics; from_str does not return
StructUnsetPanic ==
    /\ At("value", "check")
    /\ SomeFieldUnset(holes)
    /\ phase' = "done"
    /\ outcome' = Outcome("panic", VUninit, NoErr)
    /\ stack' = <<>>
    /\ holes' = <<>>
    /\ UNCHANGED <<calls, target, docs, ops, visited, err, first, prev>>

StructDone ==
    /\ At("value", "check")
    /\ ~SomeFieldUnset(holes)
    /\ Goto("ret", 0, holes, ops)

IsPlain(shape) == ~shape.transparent /\ shape.ty # "Struct"

\* Def::Scalar, for a numeric, bool or String shape: the node is coerced
\* and the value set
ScalarSet ==
    /\ At("value", "enter")
    /\ IsPlain(AtShape) /\ AtShape.def = "Scalar" /\ ~IsHooked(AtShape)
    /\ LET r == ScalarValue(AtShape, TopFrame.node)
       IN  IF ~r.ok THEN Fail(r.err, holes, ops)
           ELSE IF SetOk(holes, r.val)
           THEN Goto("ret", 0, SetValue(holes, r.val), Append(ops, "set"))
           ELSE Fail(ReflectErr, holes, Append(ops, "set"))

\* Def::Scalar, for any other shape: the node must be a string, which the
\* type's own parser is given first; its failure is not returned
ScalarParse ==
    /\ At("value", "enter")
    /\ IsPlain(AtShape) /\ AtShape.def = "Scalar" /\ IsHooked(AtShape)
    /\ LET r == ScalarValue(AtShape, TopFrame.node)
       IN  IF ~r.ok THEN Fail(r.err, holes, ops)
           ELSE /\ stack' = [stack EXCEPT ![Len(stack)].pc =
                                IF HookParses(AtShape, r.val.s) THEN "ret" ELSE "fallback"]
                /\ holes' = IF HookParses(AtShape, r.val.s)
                            THEN SetValue(holes, VParsed(AtShape.id, r.val.s))
                            ELSE holes
                /\ ops' = Append(ops, "parse_from_str")
                /\ first' = IF HookParses(AtShape, r.val.s) \/ first # NoErr
                            THEN first ELSE ParseHookErr
                /\ UNCHANGED <<phase, calls, target, docs, visited, err, outcome, prev>>

\* faulty variant of ScalarFallback: the string is stored whatever the hole
ScalarFallbackLax ==
    /\ At("value", "fallback")
    /\ Goto("ret", 0, SetValue(holes, VString(TopFrame.node.s)), Append(ops, "set"))

\* the parser failed: the text is set as a String
ScalarFallback ==
    /\ At("value", "fallback")
    /\ IF SetOk(holes, VString(TopFrame.node.s))
       THEN Goto("ret", 0, SetValue(holes, VString(TopFrame.node.s)), Append(ops, "set"))
       ELSE Fail(ReflectErr, holes, Append(ops, "set"))

\* Def::List and Def::Slice
ListCall ==
    /\ At("value", "enter")
    /\ IsPlain(AtShape) /\ AtShape.def \in {"List", "Slice"}
    /\ CallWalker("list", "ret", TopFrame.node, holes, ops)

\* Def::Map
MapCall ==
    /\ At("value", "enter")
    /\ IsPlain(AtShape) /\ AtShape.def = "Map"
    /\ CallWalker("map", "ret", TopFrame.node, holes, ops)

\* Def::Option: null leaves the option as it is, anything else is its payload
OptionEnter ==
    /\ At("value", "enter")
    /\ IsPlain(AtShape) /\ AtShape.def = "Option"
    /\ IF TopFrame.node.tag = "Null"
       THEN Goto("ret", 0, holes, ops)
       ELSE CallValue("some_end", 0, TopFrame.node,
                      BeginChild(holes, "some", 1), Append(ops, "begin_some"))

OptionEnd ==
    /\ At("value", "some_end")
    /\ Goto("ret", 0, End(holes), Append(ops, "end"))

\* Def::Pointer: a slice pointee is walked as a list, any other translated
PointerBegin ==
    /\ At("value", "enter")
    /\ IsPlain(AtShape) /\ AtShape.def = "Pointer"
    /\ IF AtShape.kids = <<>>
       THEN Fail(Msg("SmartPointer must have a pointee shape"), holes, ops)
       ELSE IF AtShape.kids[1].ty = "Slice"
       THEN CallWalker("list", "ptr_end", TopFrame.node,
                       BeginChild(holes, "ptr", 1), Append(ops, "begin_smart_ptr"))
       ELSE CallValue("ptr_end", 0, TopFrame.node,
                      BeginChild(holes, "ptr", 1), Append(ops, "begin_smart_ptr"))

PointerEnd ==
    /\ At("value", "ptr_end")
    /\ Goto("ret", 0, End(holes), Append(ops, "end"))

\* every other definition
Unsupported ==
    /\ At("value", "enter")
    /\ IsPlain(AtShape)
    /\ AtShape.def \notin {"Scalar", "List", "Slice", "Map", "Option", "Pointer"}
    /\ Fail(KindErr("Unsupported type: {:?}", AtShape.id), holes, ops)

(* ------------------------------------------------------------------------ *)
(* deserialize_as_list                                                       *)
(* ------------------------------------------------------------------------ *)
\* faulty variant of ListElement: the array is walked from its end
ListElementReversed(array, i) == array[Len(array) - i + 1]

\* the element the i-th turn of the loop translates
ListElement(array, i) == array[i]

\* faulty variant of ListStart: an empty array returns before the list is begun
ListStartLate(h, array) == IF array = <<>> THEN h ELSE BeginCollection(h, "list")

\* wip.begin_list(), which comes before the test for an empty array
ListStart(h, array) == BeginCollection(h, "list")

\* the list is begun; an empty array returns at once
ListEnter ==
    /\ At("list", "enter")
    /\ IF TopFrame.node.tag # "Array"
       THEN Fail(KindErr("Expected a YAML array, got: {}", yaml_type(TopFrame.node)),
                 holes, ops)
       ELSE IF TopFrame.node.items = <<>>
       THEN Goto("ret", 0, ListStart(holes, TopFrame.node.items), Append(ops, "begin_list"))
       ELSE Goto("item", 1, ListStart(holes, TopFrame.node.items), Append(ops, "begin_list"))

ListItem ==
    /\ At("list", "item")
    /\ CallValue("item_end", TopFrame.i, ListElement(TopFrame.node.items, TopFrame.i),
                 BeginChild(holes, "item", 1), Append(ops, "begin_list_item"))

\* faulty variant of CloseItem: the item is left open
CloseItemMissing(h) == h

\* the holes after the end() that closes a list item
CloseItem(h) == End(h)

ListItemEnd ==
    /\ At("list", "item_end")
    /\ IF TopFrame.i < Len(TopFrame.node.items)
       THEN Goto("item", TopFrame.i + 1, CloseItem(holes), Append(ops, "end"))
       ELSE Goto("ret", 0, CloseItem(holes), Append(ops, "end"))

(* ------------------------------------------------------------------------ *)
(* deserialize_as_map                                                        *)
(* ------------------------------------------------------------------------ *)
\* wip.begin_map(), which comes before the test for an empty mapping
MapStart(h, keys) == BeginCollection(h, "map")

\* the map is begun; an empty mapping returns at once
MapEnter ==
    /\ At("map", "enter")
    /\ IF TopFrame.node.tag # "Hash"
       THEN Fail(KindErr("Expected a YAML hash/map, got: {}", yaml_type(TopFrame.node)),
                 holes, ops)
       ELSE IF TopFrame.node.keys = <<>>
       THEN Goto("ret", 0, MapStart(holes, TopFrame.node.keys), Append(ops, "begin_map"))
       ELSE Goto("pair", 1, MapStart(holes, TopFrame.node.keys), Append(ops, "begin_map"))

\* one pair: the key is set as a String, then the value translated
MapPair ==
    /\ At("map", "pair")
    /\ LET k == TopFrame.node.keys[TopFrame.i]
           v == TopFrame.node.vals[TopFrame.i]
           hk == BeginChild(holes, "key", 1)
       IN  IF ~IsStr(k)
           THEN Fail(KindErr("Expected string key, got: {}", yaml_type(k)), holes, ops)
           ELSE IF ~SetOk(hk, VString(k.s))
           THEN Fail(ReflectErr, hk, ops \o <<"begin_key", "set">>)
           ELSE CallValue("value_end", TopFrame.i, v,
                          BeginChild(End(SetValue(hk, VString(k.s))), "value", 2),
                          ops \o <<"begin_key", "set", "end", "begin_value">>)

MapValueEnd ==
    /\ At("map", "value_end")
    /\ IF TopFrame.i < Len(TopFrame.node.keys)
       THEN Goto("pair", TopFrame.i + 1, End(holes), Append(ops, "end"))
       ELSE Goto("ret", 0, End(holes), Append(ops, "end"))

(* ------------------------------------------------------------------------ *)
(* Returns                                                                   *)
(* ------------------------------------------------------------------------ *)
\* Ok(()): the activation returns to its caller
Return ==
    /\ phase = "walk" /\ stack # <<>> /\ TopFrame.pc = "ret"
    /\ stack' = SubSeq(stack, 1, Len(stack) - 1)
    /\ phase' = IF Len(stack) = 1 THEN "build" ELSE "walk"
    /\ UNCHANGED <<calls, target, docs, holes, ops, visited, err, first, outcome, prev>>

\* Partial::build: the value is whole
IsBuilt(v) == v.vt # "uninit"

\* from_str after from_str_value returned Ok: the value is built and returned
Build ==
    /\ phase = "build"
    /\ phase' = "done"
    /\ IF IsBuilt(holes[1].val)
       THEN outcome' = Outcome("ok", holes[1].val, NoErr) /\ err' = err /\ first' = first
       ELSE /\ outcome' = Outcome("err", VUninit, Msg("reflect: uninitialized"))
            /\ err' = Msg("reflect: uninitialized")
            /\ first' = IF first = NoErr THEN Msg("reflect: uninitialized") ELSE first
    /\ holes' = <<>>
    /\ UNCHANGED <<calls, target, docs, stack, ops, visited, prev>>

\* faulty variant of OnError: the hole is closed before the error is returned
OnErrorClose(o) == Append(o, "end")

\* what an activation does to the builder when the call it made returns an error
OnError(o) == o

\* `?` in a caller: the error of the call it made is returned as it is
Propagate ==
    /\ phase = "unwind" /\ stack # <<>>
    /\ stack' = SubSeq(stack, 1, Len(stack) - 1)
    /\ ops' = OnError(ops)
    /\ UNCHANGED <<phase, calls, target, docs, holes, visited, err, first, outcome, prev>>

\* from_str returns the error of from_str_value; the partial value is dropped
ReturnErr ==
    /\ phase = "unwind" /\ stack = <<>>
    /\ phase' = "done"
    /\ outcome' = Outcome("err", VUninit, err)
    /\ holes' = <<>>
    /\ UNCHANGED <<calls, target, docs, stack, ops, visited, err, first, prev>>

Next ==
    \/ FromStr
    \/ FromStrReordered
    \/ TransparentBegin
    \/ TransparentEnd
    \/ StructEnter
    \/ StructPair
    \/ StructPairEnd
    \/ StructDefaults
    \/ StructUnsetPanic
    \/ StructDone
    \/ ScalarSet
    \/ ScalarParse
    \/ ScalarFallback
    \/ ListCall
    \/ MapCall
    \/ OptionEnter
    \/ OptionEnd
    \/ PointerBegin
    \/ PointerEnd
    \/ Unsupported
    \/ ListEnter
    \/ ListItem
    \/ ListItemEnd
    \/ MapEnter
    \/ MapPair
    \/ MapValueEnd
    \/ Return
    \/ Build
    \/ Propagate
    \/ ReturnErr

Spec == Init /\ [][Next]_vars

(* ------------------------------------------------------------------------ *)
(* Properties                                                                *)
(* ------------------------------------------------------------------------ *)
\* the call loaded exactly one document, whose root is Root
OneDoc == calls > 0 /\ docs.ok /\ Len(docs.docs) = 1

Root == docs.docs[1]

Done == phase = "done"

\* C1: from_str wants exactly one document. When the loader returns none or
\* more than one, the call fails with "Expected exactly one YAML document"
\* and deserialize_value was never called nor any builder operation issued;
\* when it returns exactly one, the root node of that document is what
\* deserialize_value is first called on, at the root hole.
C1_ExactlyOneDocument ==
    /\ (calls > 0 /\ docs.ok /\ Len(docs.docs) # 1) =>
          /\ phase \in {"unwind", "done"}
          /\ err = Msg("Expected exactly one YAML document")
          /\ visited = <<>> /\ ops = <<>> /\ stack = <<>>
          /\ Done => outcome = Outcome("err", VUninit, err)
    /\ OneDoc =>
          /\ visited # <<>> /\ visited[1] = Root
          /\ (phase = "walk" /\ stack # <<>>) =>
                stack[1].fn = "value" /\ stack[1].node = Root /\ stack[1].d0 = 1

\* two documents were loaded and the call failed
C1_Witness ==
    /\ Done /\ docs.ok /\ Len(docs.docs) = 2
    /\ outcome.kind = "err" /\ visited = <<>>

\* the string keys of a mapping that name no field of the struct shape
UnknownKeys(shape, n) ==
    {n.keys[k].s : k \in {j \in 1..Len(n.keys) :
        IsStr(n.keys[j]) /\ \A f \in 1..Len(shape.fnames) : shape.fnames[f] # n.keys[j].s}}

UnknownField(name) == Err("Field '{}' not found", "", name, ZeroNum)

\* C2 as stated: whenever the target is a struct and the source mapping holds
\* a string key that matches no field name, the call fails with the Unknown
\* Field error naming that key.
C2_AnyUnknownKeyFails ==
    (Done /\ OneDoc /\ IsStructShape(target) /\ Root.tag = "Hash") =>
        \A name \in UnknownKeys(target, Root) : outcome = Outcome("err", VUninit, UnknownField(name))

\* the walk of a struct stands at a pair whose key is a string naming no field
AtUnknownKey ==
    /\ At("value", "pairs")
    /\ TopFrame.i <= Len(TopFrame.node.keys)
    /\ IsStr(TopFrame.node.keys[TopFrame.i])
    /\ \A f \in 1..Len(AtShape.fnames) : AtShape.fnames[f] # TopFrame.node.keys[TopFrame.i].s

\* C2 as amended: when the walk of a struct reaches a pair whose key is a
\* string naming no field (every earlier pair having been translated), the
\* step fails with the Unknown Field error naming that key: no hole is
\* opened, no builder operation issued and no node visited by it, and the
\* call returns that error.
C2_UnknownFieldFails ==
    /\ [][AtUnknownKey =>
            /\ phase' = "unwind"
            /\ err' = UnknownField(TopFrame.node.keys[TopFrame.i].s)
            /\ ops' = ops /\ visited' = visited /\ holes' = holes]_vars
    /\ []((Done /\ err.msg = "Field '{}' not found") =>
            /\ outcome = Outcome("err", VUninit, err)
            /\ IsStructShape(target) =>
                    \E name \in UnknownKeys(target, Root) : err = UnknownField(name))

\* the unknown key came first of two pairs: the call failed naming it, and
\* the value of the second pair was never visited
C2_Witness ==
    /\ Done /\ OneDoc /\ target = AB
    /\ Root = YHash(<<YStr(<<"z", "z">>), YStr(<<"a">>)>>, <<YInt(Pos(1)), YInt(Pos(1))>>)
    /\ outcome = Outcome("err", VUninit, UnknownField(<<"z", "z">>))
    /\ visited = <<Root>>

\* C3: a field still unset after the mapping was consumed and the defaults
\* were applied makes the translation return a Missing Required Field error.
C3_MissingFieldReported ==
    [][(At("value", "check") /\ SomeFieldUnset(holes)) =>
            phase' = "unwind" /\ err'.msg = "Missing required field"]_vars

\* a list, a slice, or a pointer to a slice
ListLike(shape) ==
    /\ IsPlain(shape)
    /\ \/ shape.def \in {"List", "Slice"}
       \/ shape.def = "Pointer" /\ shape.kids # <<>> /\ shape.kids[1].ty = "Slice"

\* the shape of the items of a list-like shape, and the items of its value
ItemShape(shape) ==
    IF shape.def = "Pointer" THEN shape.kids[1].kids[1] ELSE shape.kids[1]

ItemsOf(shape, val) == IF shape.def = "Pointer" THEN val.elems[1].elems ELSE val.elems

\* val is what node translates to: an integer node gives the integer it
\* holds, a boolean node the boolean it holds; a sequence gives a collection
\* of as many items, the i-th being what the i-th element translates to; a
\* mapping gives a struct whose field of each key is what the value
\* translates to
RECURSIVE Translates(_, _, _)
Translates(shape, node, val) ==
    IF ListLike(shape)
    THEN /\ node.tag = "Array"
         /\ Len(ItemsOf(shape, val)) = Len(node.items)
         /\ \A k \in 1..Len(node.items) :
                Translates(ItemShape(shape), node.items[k], ItemsOf(shape, val)[k])
    ELSE IF IsStructShape(shape)
    THEN /\ node.tag = "Hash"
         /\ \A k \in 1..Len(node.keys) : \A f \in 1..Len(shape.fnames) :
                shape.fnames[f] = node.keys[k].s =>
                    Translates(shape.kids[f], node.vals[k], val.elems[f])
    ELSE /\ val.vt = shape.id
         /\ node.tag = "Integer" /\ ~node.i.neg /\ shape.ty \in {"UInt", "SInt"} =>
                val.num = node.i
         /\ node.tag = "Boolean" /\ shape.id = "bool" => val.b = node.b

\* the children of a node: the elements of a sequence, the values of a mapping
Children(node) ==
    IF node.tag = "Array" THEN node.items
    ELSE IF node.tag = "Hash" THEN node.vals ELSE <<>>

\* the elements of every sequence of the tree of node, counted
RECURSIVE CountItems(_), CountItemsIn(_)
CountItems(node) ==
    (IF node.tag = "Array" THEN Len(node.items) ELSE 0) + CountItemsIn(Children(node))

CountItemsIn(q) == IF q = <<>> THEN 0 ELSE CountItems(Head(q)) + CountItemsIn(Tail(q))

\* the nodes of the tree of node, parents first, in source order
RECURSIVE Preorder(_), PreorderOf(_)
Preorder(node) == <<node>> \o PreorderOf(Children(node))

PreorderOf(q) == IF q = <<>> THEN <<>> ELSE Preorder(Head(q)) \o PreorderOf(Tail(q))

Count(q, S) == Cardinality({k \in 1..Len(q) : q[k] \in S})

\* C4: the list walker keeps the source order. A sequence of n elements
\* translated into a list, a slice or a pointer to a slice (nested ones
\* too) opens exactly n item holes, visits the elements in source order, and
\* yields a collection of n items, the i-th being the translation of the
\* i-th element.
C4_ListOrderPreserved ==
    (Done /\ OneDoc /\ ListLike(target) /\ outcome.kind = "ok") =>
        /\ Translates(target, Root, outcome.val)
        /\ Count(ops, {"begin_list_item"}) = CountItems(Root)
        /\ visited = Preorder(Root)

\* three different elements were translated into a list of u64
C4_Witness ==
    /\ Done /\ OneDoc /\ outcome.kind = "ok"
    /\ target = VecOf(U64)
    /\ Root = YArr(<<YInt(Pos(2)), YInt(Pos(300)), YInt(Pos(1))>>)
    /\ outcome.val.elems = <<VInt("u64", Pos(2)), VInt("u64", Pos(300)), VInt("u64", Pos(1))>>

\* the builder operations that open an item, a key or a value
ItemOpens == {"begin_list_item", "begin_key", "begin_value"}

\* C5: an empty sequence translated into a list, a slice or a pointer to a
\* slice, and an empty mapping translated into a map, succeed and yield an
\* empty collection: the collection is begun, no item, key or value hole is
\* opened, and the result is neither absent nor an error.
C5_EmptyCollections ==
    /\ (Done /\ OneDoc /\ ListLike(target) /\ Root = YArr(<<>>)) =>
          /\ outcome.kind = "ok"
          /\ ItemsOf(target, outcome.val) = <<>>
          /\ (IF target.def = "Pointer" THEN outcome.val.elems[1] ELSE outcome.val)
                = VAgg("list", <<>>)
          /\ Count(ops, {"begin_list"}) = 1 /\ Count(ops, ItemOpens) = 0
    /\ (Done /\ OneDoc /\ IsPlain(target) /\ target.def = "Map"
             /\ Root = YHash(<<>>, <<>>)) =>
          /\ outcome = Outcome("ok", VAgg("map", <<>>), NoErr)
          /\ ops = <<"begin_map">>

\* an empty sequence was translated into a pointer to a slice
C5_Witness ==
    /\ Done /\ OneDoc /\ target = PtrTo(SliceOf(I32)) /\ Root = YArr(<<>>)
    /\ outcome.kind = "ok"
    /\ ops = <<"begin_smart_ptr", "begin_list", "end">>

\* a + b on 64 bits, with the carry out of the top limb
Add64(a, b) ==
    LET t1 == a[1] + b[1]
        t2 == a[2] + b[2] + (t1 \div Base)
        t3 == a[3] + b[3] + (t2 \div Base)
        t4 == a[4] + b[4] + (t3 \div Base)
    IN  [mag |-> Limbs(t1 % Base, t2 % Base, t3 % Base, t4 % Base), carry |-> t4 \div Base]

\* the unsigned numbers the sample texts spell: 2^64 - 1 is the largest
SpelledU64(t) ==
    CASE t = <<"1">> -> {Small(1)}
      [] t = <<"0">> -> {Small(0)}
      [] t = <<"+", "7">> -> {Small(7)}
      [] t = <<"2", "5", "5">> -> {Small(255)}
      [] t = <<"3", "0", "0">> -> {Small(300)}
      [] t = <<"9", "2", "2", "3", "3", "7", "2", "0", "3", "6", "8", "5", "4", "7", "7",
               "5", "8", "0", "8">> -> {Limbs(0, 0, 0, Base \div 2)}
      [] t = <<"1", "8", "4", "4", "6", "7", "4", "4", "0", "7", "3", "7", "0", "9", "5",
               "5", "1", "6", "1", "5">> -> {Limbs(Base - 1, Base - 1, Base - 1, Base - 1)}
      [] OTHER -> {}

\* 2^63 and the 256 largest 64-bit values
HighValues ==
    {I64MinMag} \cup {Limbs(Base - k, Base - 1, Base - 1, Base - 1) : k \in 1..256}

\* the staging values of a node: an integer modulo 2^64 (itself when it is
\* not negative, else the v with v + |i| = 2^64), a boolean as 1 or 0, a real
\* or a string as the unsigned number it spells
Staged(node) ==
    CASE node.tag = "Integer" ->
            IF ~node.i.neg THEN {node.i.mag}
            ELSE {v \in HighValues :
                    Add64(v, node.i.mag) = [mag |-> Zero64, carry |-> 1]}
      [] node.tag = "Boolean" -> {IF node.b THEN Small(1) ELSE Small(0)}
      [] node.tag \in {"Real", "String"} -> SpelledU64(node.s)
      [] OTHER -> {}

\* v <= 2^(8w) - 1
FitsWidth(v, w) ==
    /\ v[4] = 0 /\ v[3] = 0
    /\ w < 4 => v[2] = 0
    /\ w < 2 => v[1] < 256

\* C6: for an unsigned target of 1, 2 or 4 bytes the node is first converted
\* to an unsigned 64-bit staging value v; the translation succeeds with the
\* value v exactly when v <= 2^(8w) - 1 and fails otherwise with the
\* out-of-range error naming v and the type. For u8, 300 fails and 255
\* succeeds.
C6_UnsignedRange ==
    /\ (Done /\ OneDoc /\ target \in {U8, U16, U32}) =>
          \A v \in Staged(Root) :
             IF FitsWidth(v, target.size)
             THEN outcome = Outcome("ok", VInt(target.id, Num(FALSE, v)), NoErr)
             ELSE outcome = Outcome("err", VUninit, RangeErr(Num(FALSE, v), target.id))
    /\ (Done /\ OneDoc /\ target = U8 /\ Root = YInt(Pos(300))) => outcome.kind = "err"
    /\ (Done /\ OneDoc /\ target = U8 /\ Root = YInt(Pos(255))) =>
          outcome = Outcome("ok", VInt("u8", Pos(255)), NoErr)

\* -1 was given to a u8: it staged as 2^64 - 1 and was refused
C6_Witness ==
    /\ Done /\ OneDoc /\ target = U8 /\ Root = YInt(Neg(1))
    /\ Staged(Root) = {Limbs(Base - 1, Base - 1, Base - 1, Base - 1)}
    /\ outcome.kind = "err"
    /\ outcome.err.num = Num(FALSE, Limbs(Base - 1, Base - 1, Base - 1, Base - 1))

\* the previous call translated the same pairs, in another order, into the
\* same struct type
Reordered ==
    /\ calls > 1 /\ OneDoc /\ IsStructShape(target) /\ Root.tag = "Hash"
    /\ prev.target = target /\ prev.in.ok /\ Len(prev.in.docs) = 1
    /\ prev.in.docs[1].tag = "Hash" /\ prev.in.docs[1] # Root
    /\ PairSet(prev.in.docs[1]) = PairSet(Root)

TrueSpellings ==
    {<<a, b, c, d>> : a \in {"t", "T"}, b \in {"r", "R"}, c \in {"u", "U"}, d \in {"e", "E"}}
    \cup {<<a, b, c>> : a \in {"y", "Y"}, b \in {"e", "E"}, c \in {"s", "S"}}
    \cup {<<"1">>}

\* C8: for a bool target a boolean node gives itself, an integer node true
\* exactly when it is not zero, a string node true exactly when it spells
\* "true", "yes" or "1" in either case and false, without error, otherwise;
\* every other node fails with the cannot-convert error.
C8_BoolCoercion ==
    (Done /\ OneDoc /\ target = Bool) =>
        CASE Root.tag = "Boolean" -> outcome = Outcome("ok", VBool(Root.b), NoErr)
          [] Root.tag = "Integer" ->
                outcome = Outcome("ok", VBool(Root.i.mag # Zero64), NoErr)
          [] Root.tag = "String" ->
                outcome = Outcome("ok", VBool(Root.s \in TrueSpellings), NoErr)
          [] OTHER ->
                outcome = Outcome("err", VUninit,
                                  KindErr("Cannot convert {} to bool", yaml_type(Root)))

\* "Yes" was translated into true
C8_Witness ==
    /\ Done /\ OneDoc /\ target = Bool /\ Root = YStr(<<"Y", "e", "s">>)
    /\ outcome = Outcome("ok", VBool(TRUE), NoErr)

\* C9 as stated: every failure ends the translation. Once any operation of
\* the call has failed (a coercion, a shape mismatch, an unknown field, a
\* builder operation), no builder operation is issued and no node visited any
\* more, and from_str returns that first error and no value.
C9_AnyFailureIsTerminal ==
    [][(phase # "done" /\ first # NoErr) =>
            /\ ops' = ops /\ visited' = visited
            /\ phase' = "done" => outcome' = Outcome("err", VUninit, first)]_vars

\* C9 as amended: every error is terminal but the failure of the type's own
\* string parser, after which the dispatcher falls back to setting the text.
\* Once any other step has failed, at any depth, no builder operation is
\* issued and no node visited any more, the error is handed unchanged from
\* each activation to its caller, and from_str returns that error and no
\* value; while the walk goes on after a failure, that failure is the
\* parser's and the walk stands at the fallback.
C9_ErrorsAreTerminal ==
    /\ [][phase = "unwind" =>
            /\ ops' = ops /\ visited' = visited /\ err' = err
            /\ phase' \in {"unwind", "done"}
            /\ Len(stack') <= Len(stack)
            /\ phase' = "unwind" => holes' = holes
            /\ phase' = "done" => outcome' = Outcome("err", VUninit, err)]_vars
    /\ [][(phase = "walk" /\ phase' = "unwind") =>
            /\ err = NoErr /\ err' # NoErr
            /\ stack' = stack /\ visited' = visited]_vars
    /\ []((phase = "walk" /\ first # NoErr) =>
            first = ParseHookErr /\ At("value", "fallback"))
    /\ []((phase = "unwind" /\ first # err) => first = ParseHookErr)
    /\ []((Done /\ outcome.kind = "err") => outcome.val = VUninit)

\* the second of three elements failed three activations deep: the third
\* element was never visited and the call returned the error
C9_Witness ==
    /\ Done /\ OneDoc /\ target = VecOf(U8)
    /\ Root = YArr(<<YInt(Pos(1)), YInt(Pos(300)), YInt(Pos(2))>>)
    /\ visited = <<Root, YInt(Pos(1)), YInt(Pos(300))>>
    /\ ops = <<"begin_list", "begin_list_item", "set", "end", "begin_list_item">>
    /\ outcome = Outcome("err", VUninit, RangeErr(Pos(300), "u8"))

\* the builder operations that open a child hole
Opens ==
    {"begin_inner", "begin_nth_field", "begin_list_item", "begin_key", "begin_value",
     "begin_some", "begin_smart_ptr"}

\* C10: the holes form a strict stack. After any number of builder
\* operations no more holes were closed than opened, the open holes are
\* those opened and not yet closed, and every activation that returns
\* successfully leaves as many holes open as it found: each hole it opened
\* was closed once before its parent was used again, on the early returns for
\* an empty sequence or mapping and through a pointer to a slice as well.
C10_HolesFormAStack ==
    /\ \A k \in 0..Len(ops) :
          Count(SubSeq(ops, 1, k), {"end"}) <= Count(SubSeq(ops, 1, k), Opens)
    /\ phase \in {"walk", "unwind", "build"} =>
          Len(holes) = 1 + Count(ops, Opens) - Count(ops, {"end"})
    /\ \A k \in 1..Len(stack) :
          /\ stack[k].d0 <= Len(holes)
          /\ (phase = "walk" /\ k = Len(stack) /\ stack[k].pc = "ret") =>
                Len(holes) = stack[k].d0
    /\ phase = "build" => Len(holes) = 1

\* the walk of an empty sequence through a pointer to a slice is returning
C10_Witness ==
    /\ phase = "walk" /\ target = PtrTo(SliceOf(I32)) /\ Root = YArr(<<>>)
    /\ Len(stack) = 1 /\ TopFrame.pc = "ret" /\ Len(holes) = 1
    /\ ops = <<"begin_smart_ptr", "begin_list", "end">>

\* the walk stands at a scalar hole whose shape is neither numeric nor bool
\* nor String, with a string node to translate into it
AtOtherScalar ==
    /\ At("value", "enter")
    /\ IsPlain(AtShape) /\ AtShape.def = "Scalar" /\ IsHooked(AtShape)
    /\ IsStr(TopFrame.node)

\* the target is such a scalar and the document a string
OtherScalarCall ==
    /\ OneDoc /\ IsPlain(target) /\ target.def = "Scalar" /\ IsHooked(target)
    /\ IsStr(Root)

\* C11 as stated: a string node translated into a scalar that is neither
\* numeric nor bool nor String always succeeds, because the fallback that
\* sets the raw string after the type's parser failed never fails.
C11_FallbackNeverErrors ==
    (Done /\ OtherScalarCall) => outcome.kind = "ok"

\* C11 as amended: for such a scalar and a string node the type's own parser
\* is tried first and, when it fails, the raw string is set, and the result
\* of that assignment is the result of the translation: when the builder
\* refuses the string the error is returned. The call succeeds exactly when
\* the parser accepts the text or the builder accepts the string.
C11_FallbackResultReturned ==
    /\ [][AtOtherScalar =>
            /\ ops' = Append(ops, "parse_from_str")
            /\ phase' = "walk" /\ err' = NoErr
            /\ IF HookParses(AtShape, TopFrame.node.s)
               THEN /\ stack'[Len(stack')].pc = "ret"
                    /\ Top(holes').val = VParsed(AtShape.id, TopFrame.node.s)
               ELSE /\ stack'[Len(stack')].pc = "fallback"
                    /\ holes' = holes]_vars
    /\ [][At("value", "fallback") =>
            /\ ops' = Append(ops, "set")
            /\ IF SetOk(holes, VString(TopFrame.node.s))
               THEN /\ phase' = "walk" /\ stack'[Len(stack')].pc = "ret"
                    /\ Top(holes').val = VString(TopFrame.node.s)
               ELSE /\ phase' = "unwind" /\ err' = ReflectErr
                    /\ holes' = holes]_vars
    /\ []((Done /\ OtherScalarCall) =>
            IF HookParses(target, Root.s)
            THEN outcome = Outcome("ok", VParsed(target.id, Root.s), NoErr)
            ELSE IF SetOk(<<FreshHole(target, "root", 0)>>, VString(Root.s))
            THEN outcome = Outcome("ok", VString(Root.s), NoErr)
            ELSE outcome = Outcome("err", VUninit, ReflectErr))

\* "ab" into a char: the parser refused it, the string was set, and the call
\* returned the builder's error
C11_Witness ==
    /\ Done /\ OtherScalarCall /\ target = Char /\ Root = YStr(<<"a", "b">>)
    /\ ops = <<"parse_from_str", "set">>
    /\ first = ParseHookErr
    /\ outcome = Outcome("err", VUninit, ReflectErr)

Defaulting == {"set_nth_field_to_default"}

\* the walk of a struct has processed the last pair of its mapping
AfterLastPair ==
    /\ At("value", "pairs")
    /\ TopFrame.i > Len(TopFrame.node.keys)

\* the fields of the struct being walked that are unset and have a default
Eligible ==
    {k \in 1..Len(AtShape.kids) : ~Top(holes).isset[k] /\ AtShape.fdefault[k]}

\* the fields of the target that no key of the document names
Unnamed ==
    {k \in 1..Len(target.fnames) :
        \A j \in 1..Len(Root.keys) : Root.keys[j] # YStr(target.fnames[k])}

\* C12: the defaults of a struct are applied only after every pair of the
\* mapping was processed, to exactly the fields then unset that carry the
\* default flag, each once: a field written from the source keeps its value
\* and is not defaulted, a field without the flag is never defaulted, and no
\* other hole changes.
C12_DefaultsFillUnsetOnly ==
    /\ [][Count(ops', Defaulting) > Count(ops, Defaulting) => AfterLastPair]_vars
    /\ [][AfterLastPair =>
            /\ ops' = ops \o [j \in 1..Cardinality(Eligible) |-> "set_nth_field_to_default"]
            /\ Len(holes') = Len(holes)
            /\ SubSeq(holes', 1, Len(holes) - 1) = SubSeq(holes, 1, Len(holes) - 1)
            /\ \A k \in 1..Len(AtShape.kids) :
                  IF k \in Eligible
                  THEN Top(holes').isset[k] /\ Top(holes').val.elems[k] = VDefault
                  ELSE /\ Top(holes').isset[k] = Top(holes).isset[k]
                       /\ Top(holes').val.elems[k] = Top(holes).val.elems[k]]_vars
    /\ []((Done /\ OneDoc /\ IsStructShape(target) /\ outcome.kind = "ok") =>
            /\ \A k \in 1..Len(target.fnames) :
                  outcome.val.elems[k] = VDefault <=> (k \in Unnamed /\ target.fdefault[k])
            /\ Count(ops, Defaulting) = Cardinality({k \in Unnamed : target.fdefault[k]}))

\* { b: 1 } into DD: b keeps the value of the source and a alone was
\* defaulted, once, after the pair
C12_Witness ==
    /\ Done /\ OneDoc /\ target = DD
    /\ Root = YHash(<<YStr(<<"b">>)>>, <<YInt(Pos(1))>>)
    /\ outcome.kind = "ok"
    /\ outcome.val.elems = <<VDefault, VInt("u8", Pos(1))>>
    /\ ops = <<"begin_nth_field", "set", "end", "set_nth_field_to_default">>

====
